---- MODULE Spec2Model ----
(***************************************************************************)
(* Shor factorization: find_factor, the two order finders, the phase       *)
(* measurement decoder, the prime-power shortcut (main.py) and the         *)
(* ModularExp arithmetic gate (module_exp.py).                              *)
(*                                                                         *)
(* Python integers are unbounded; TLC's are 32 bit.  Powers are therefore  *)
(* computed by modular multiplication (PowMod), which yields the same      *)
(* value as Python's x ** e % n, and all bounds keep products below 2^31.  *)
(***************************************************************************)
EXTENDS Integers, Sequences, FiniteSets, TLC

(* ----------------------------- bounds ---------------------------------- *)

\* largest n handed to find_factor
MaxN == 33
\* largest n for which find_factor is run with quantum_order_finder
MaxQuantumN == 21
\* largest max_attempts handed to find_factor
MaxAttemptsBound == 2
\* largest argument of a direct call of naive_order_finder / quantum_order_finder
MaxOrderN == 15
\* largest n handed directly to find_factor_of_prime_power
MaxPowerN == 81
\* largest modulus, target and exponent register width of a ModularExp gate
MaxModulus == 9
MaxTargetLen == 4
MaxExponentLen == 2

(* ------------------------- values and helpers -------------------------- *)

\* Python's None where an integer is expected; every integer these variables
\* hold (n, x, c, r, y, results, measurements) is non-negative
None == -1

\* no exception; no order finder; no local frame
NoError == "None"
NoFinder == "None"
NoFrame == [r |-> None, y |-> None]
NoTable == [exponent |-> None, out |-> <<>>]

\* abs(), as math.gcd uses it
Abs(a) == IF a < 0 THEN -a ELSE a

RECURSIVE GcdNat(_, _)
GcdNat(a, b) == IF b = 0 THEN a ELSE GcdNat(b, a % b)

\* math.gcd(a, b)
Gcd(a, b) == GcdNat(Abs(a), Abs(b))

\* int.bit_length() of a non-negative integer
RECURSIVE BitLength(_)
BitLength(a) == IF a <= 0 THEN 0 ELSE 1 + BitLength(a \div 2)

\* 2 ** e
RECURSIVE Pow2(_)
Pow2(e) == IF e <= 0 THEN 1 ELSE 2 * Pow2(e - 1)

\* b ** e for small arguments (c1 ** k in find_factor_of_prime_power)
RECURSIVE Pow(_, _)
Pow(b, e) == IF e <= 0 THEN 1 ELSE b * Pow(b, e - 1)

\* b ** e % m for e >= 0, m >= 1
RECURSIVE PowMod(_, _, _)
PowMod(b, e, m) == IF e <= 0 THEN 1 % m ELSE ((b % m) * PowMod(b, e - 1, m)) % m

\* isprime that forgets the only even prime
isprime_odd_only(a) == a >= 3 /\ \A d \in 2..(a - 1) : d * d > a \/ a % d # 0

\* sympy.isprime(n)
isprime(a) == a >= 2 /\ \A d \in 2..(a - 1) : d * d > a \/ a % d # 0

(* ------------------ fractions.Fraction (standard library) -------------- *)

\* fractions.Fraction.from_float(m / 2 ** bits): the float is exact (m < 2^53),
\* so the fraction is m / 2^bits in lowest terms, as <<numerator, denominator>>
from_float(m, bits) ==
    LET g == Gcd(m, Pow2(bits)) IN <<m \div g, Pow2(bits) \div g>>

\* the while-loop of Fraction.limit_denominator; yields <<p0, q0, p1, q1>>
RECURSIVE limit_denominator_loop(_, _, _, _, _, _, _)
limit_denominator_loop(p0, q0, p1, q1, nn, d, max_denominator) ==
    LET a  == nn \div d
        q2 == q0 + a * q1
    IN  IF q2 > max_denominator
        THEN <<p0, q0, p1, q1>>
        ELSE limit_denominator_loop(p1, q1, p0 + a * p1, q2, d, nn - a * d,
                                    max_denominator)

\* Fraction.limit_denominator(max_denominator) of f = <<numerator, denominator>>:
\* the closest fraction to f with denominator <= max_denominator; of the last
\* convergent bound2 and the semiconvergent bound1 the nearer one, bound2 on ties
limit_denominator(f, max_denominator) ==
    IF f[2] <= max_denominator THEN f
    ELSE LET s  == limit_denominator_loop(0, 1, 1, 0, f[1], f[2], max_denominator)
             p0 == s[1]
             q0 == s[2]
             p1 == s[3]
             q1 == s[4]
             k  == (max_denominator - q0) \div q1
             b1 == <<p0 + k * p1, q0 + k * q1>>
             b2 == <<p1, q1>>
         IN  IF Abs(b2[1] * f[2] - f[1] * b2[2]) * b1[2]
                    <= Abs(b1[1] * f[2] - f[1] * b1[2]) * b2[2]
             THEN b2 ELSE b1

(* ------------------------- main.py: pure parts ------------------------- *)

\* number of measured exponent qubits: len(LineQubit.range(L, 3 * L + 3))
exponent_num_bits(nn) == 2 * BitLength(nn) + 3

\* process_measurement(result, x, n), result holding the integer m measured
\* on exponent_num_bits(n) qubits
process_measurement(m, xx, nn) ==
    LET f == limit_denominator(from_float(m, exponent_num_bits(nn)), nn) IN
    IF f[1] = 0 THEN None
    ELSE IF PowMod(xx, f[2], nn) # 1 THEN None
    ELSE f[2]

\* math.floor(math.log2(n)) for n >= 1
FloorLog2(nn) == BitLength(nn) - 1

\* the largest integer c >= cc with c ** k <= n
RECURSIVE IRootFrom(_, _, _)
IRootFrom(nn, k, cc) == IF Pow(cc + 1, k) > nn THEN cc ELSE IRootFrom(nn, k, cc + 1)

\* pow_root when only math.floor(c) is tried
pow_root_floor_only(nn, k, rnd) ==
    LET c  == IRootFrom(nn, k, 1)
        c1 == IF Pow(c, k) = nn /\ rnd = -1 THEN c - 1 ELSE c
    IN  <<c1, c1>>

\* <<math.floor(c), math.ceil(c)>> of the float c = math.pow(n, 1 / k).  The
\* float is within one unit in the last place of the real root: when the root
\* is an integer, c is that integer or a neighbouring float (rnd = -1 below,
\* 0 exact, 1 above, e.g. math.pow(125, 1 / 3) = 4.999999999999999); otherwise
\* c lies strictly between the two integers around the root.
pow_root(nn, k, rnd) ==
    LET c == IRootFrom(nn, k, 1) IN
    IF Pow(c, k) = nn
    THEN <<IF rnd = -1 THEN c - 1 ELSE c, IF rnd = 1 THEN c + 1 ELSE c>>
    ELSE <<c, c + 1>>

\* the floating-point rounding outcomes of one call: one per k
Roundings(nn) == [2..FloorLog2(nn) -> {-1, 0, 1}]

\* the body of the for-loop of find_factor_of_prime_power, from k on
RECURSIVE prime_power_from(_, _, _)
prime_power_from(nn, k, rnd) ==
    IF k > FloorLog2(nn) THEN None
    ELSE LET fc == pow_root(nn, k, rnd[k])
             c1 == fc[1]
             c2 == fc[2]
         IN  IF Pow(c1, k) = nn THEN c1
             ELSE IF Pow(c2, k) = nn THEN c2
             ELSE prime_power_from(nn, k + 1, rnd)

\* find_factor_of_prime_power(n), n >= 1
find_factor_of_prime_power(nn, rnd) == prime_power_from(nn, 2, rnd)

\* the precondition with x <= 2 for x < 2
invalid_argument_strict(xx, nn) == xx <= 2 \/ nn <= xx \/ Gcd(xx, nn) > 1

\* the precondition of both order finders
invalid_argument(xx, nn) == xx < 2 \/ nn <= xx \/ Gcd(xx, nn) > 1

\* "if c < n" for "if 1 < c < n"
nontrivial_no_lower(cc, nn) == cc < nn

\* find_factor: "if 1 < c < n"
nontrivial(cc, nn) == 1 < cc /\ cc < nn

\* one iteration too many
loop_continues_inclusive(done, max) == done <= max

\* find_factor: "for _ in range(max_attempts)" has another iteration
loop_continues(done, max) == done < max

\* y = x ** r % n for y = x ** (r // 2) % n
half_power_full(xx, rr, nn) == PowMod(xx, rr, nn)

\* find_factor: y = x ** (r // 2) % n
half_power(xx, rr, nn) == PowMod(xx, rr \div 2, nn)

\* r, y = 0, x for r, y = 1, x
naive_init_zero(xx) == [r |-> 0, y |-> xx]

\* naive_order_finder: r, y = 1, x
naive_init(xx) == [r |-> 1, y |-> xx]

(* ---------------------------- module_exp.py ---------------------------- *)

\* apply without the identity on target >= modulus
apply_no_identity(target, exponent, base, modulus) ==
    (target * PowMod(base, exponent, modulus)) % modulus

\* ModularExp.apply(target, exponent, base, modulus)
apply(target, exponent, base, modulus) ==
    IF target >= modulus THEN target
    ELSE (target * PowMod(base, exponent, modulus)) % modulus

(* ------------------------------- state --------------------------------- *)

VARIABLES
    entry,         \* the function called from outside (bottom of the call stack)
    pc,            \* position of the running call
    n,             \* argument n
    order_finder,  \* find_factor: argument order_finder
    max_attempts,  \* find_factor: argument max_attempts
    attempt,       \* find_factor: number of completed iterations of the for-loop
    x,             \* find_factor: the drawn base; order finders: argument x
    c,             \* find_factor: local c
    r,             \* find_factor: local r (the order finder's return value)
    y,             \* find_factor: local y
    nof,           \* naive_order_finder: locals [r, y], NoFrame outside its loop
    measurement,   \* quantum_order_finder: the sampled exponent, None before
    result,        \* return value of the entry call, None until (or if) none
    error,         \* exception that ended the entry call, NoError if none
    draws,         \* number of random.randint draws made by find_factor
    calls,         \* number of order_finder invocations made by find_factor
    gate,          \* ModularExp: constructor arguments, then the object's fields
    table          \* ModularExp: [exponent |-> e, out |-> t -> apply(t, e, base, modulus)]

vars == <<entry, pc, n, order_finder, max_attempts, attempt, x, c, r, y, nof,
          measurement, result, error, draws, calls, gate, table>>

OrderFinders == {"naive_order_finder", "quantum_order_finder"}

\* values of the variables a specification's entry point does not use
NoFindFactor ==
    /\ order_finder = NoFinder /\ max_attempts = 0 /\ attempt = 0
    /\ c = None /\ r = None /\ y = None /\ draws = 0 /\ calls = 0
NoGate == gate = [target |-> None, exponent |-> None, base |-> None, modulus |-> None]
          /\ table = NoTable
NoOrder == nof = NoFrame /\ measurement = None
NoOutcome == result = None /\ error = NoError

(* ------------------------------ find_factor ---------------------------- *)

InitFindFactor ==
    /\ entry = "find_factor"
    /\ pc = "find_factor"
    /\ n \in 2..MaxN
    /\ order_finder \in OrderFinders
    /\ order_finder = "quantum_order_finder" => n <= MaxQuantumN
    /\ max_attempts \in 0..MaxAttemptsBound
    /\ attempt = 0
    /\ x = None /\ c = None /\ r = None /\ y = None
    /\ draws = 0 /\ calls = 0
    /\ NoOrder /\ NoOutcome /\ NoGate

\* find_factor, lines 168-180: the three terminal shortcuts
Shortcuts ==
    /\ pc = "find_factor"
    /\ \E rnd \in Roundings(n) :
         LET pp == find_factor_of_prime_power(n, rnd) IN
         IF isprime(n)
         THEN /\ pc' = "done" /\ result' = None /\ c' = c
         ELSE IF n % 2 = 0
         THEN /\ pc' = "done" /\ result' = 2 /\ c' = c
         ELSE IF pp # None
         THEN /\ pc' = "done" /\ result' = pp /\ c' = pp
         ELSE /\ pc' = "for" /\ result' = result /\ c' = pp
    /\ UNCHANGED <<entry, n, order_finder, max_attempts, attempt, x, r, y, nof,
                   measurement, error, draws, calls, gate, table>>

\* find_factor, lines 182-195: one more iteration: draw x, test gcd(x, n),
\* call the order finder
Draw ==
    /\ pc = "for"
    /\ loop_continues(attempt, max_attempts)
    /\ \E xx \in 2..(n - 1) :
         LET cc == Gcd(xx, n) IN
         /\ x' = xx
         /\ c' = cc
         /\ draws' = draws + 1
         /\ IF nontrivial(cc, n)
            THEN /\ pc' = "done" /\ result' = cc /\ calls' = calls
            ELSE /\ pc' = order_finder /\ result' = result /\ calls' = calls + 1
    /\ UNCHANGED <<entry, n, order_finder, max_attempts, attempt, r, y, nof,
                   measurement, error, gate, table>>

\* find_factor, lines 182 and 212-213: the for-loop is exhausted
Exhausted ==
    /\ pc = "for"
    /\ ~loop_continues(attempt, max_attempts)
    /\ pc' = "done"
    /\ result' = None
    /\ UNCHANGED <<entry, n, order_finder, max_attempts, attempt, x, c, r, y, nof,
                   measurement, error, draws, calls, gate, table>>

\* find_factor, lines 197-210: what an iteration does with the order r
AfterOrder ==
    /\ pc = "order_found"
    /\ IF r = None \/ r % 2 # 0
       THEN /\ pc' = "for" /\ attempt' = attempt + 1
            /\ UNCHANGED <<y, c, result, error>>
       ELSE LET yy == half_power(x, r, n)
                cc == Gcd(yy - 1, n)
            IN  /\ y' = yy
                /\ IF ~(1 < yy /\ yy < n)
                   THEN /\ pc' = "raised" /\ error' = "AssertionError"
                        /\ UNCHANGED <<c, result, attempt>>
                   ELSE /\ c' = cc
                        /\ error' = error
                        /\ IF nontrivial(cc, n)
                           THEN /\ pc' = "done" /\ result' = cc
                                /\ attempt' = attempt
                           ELSE /\ pc' = "for" /\ result' = result
                                /\ attempt' = attempt + 1
    /\ UNCHANGED <<entry, n, order_finder, max_attempts, x, r, nof, measurement,
                   draws, calls, gate, table>>

(* ----------------------------- order finders --------------------------- *)

\* the return of an order finder with its final locals: into find_factor's r,
\* where the finder's frame is gone, or out of the entry call
Return(value, frame, sample) ==
    IF entry = "find_factor"
    THEN /\ pc' = "order_found" /\ r' = value /\ result' = result
         /\ nof' = NoFrame /\ measurement' = None
    ELSE /\ pc' = "done" /\ result' = value /\ r' = r
         /\ nof' = frame /\ measurement' = sample

\* naive_order_finder, lines 25-27: the precondition, then r, y = 1, x
NaiveEnter ==
    /\ pc = "naive_order_finder"
    /\ IF invalid_argument(x, n)
       THEN /\ pc' = "raised" /\ error' = "ValueError" /\ nof' = nof
       ELSE /\ pc' = "while" /\ error' = error /\ nof' = naive_init(x)
    /\ UNCHANGED <<entry, n, order_finder, max_attempts, attempt, x, c, r, y,
                   measurement, result, draws, calls, gate, table>>

\* naive_order_finder, lines 28-30: one iteration of the while-loop
NaiveStep ==
    /\ pc = "while"
    /\ nof.y # 1
    /\ nof' = [r |-> nof.r + 1, y |-> (x * nof.y) % n]
    /\ UNCHANGED <<entry, pc, n, order_finder, max_attempts, attempt, x, c, r, y,
                   measurement, result, error, draws, calls, gate, table>>

\* naive_order_finder, lines 28 and 31: the loop ends, return r
NaiveReturn ==
    /\ pc = "while"
    /\ nof.y = 1
    /\ Return(nof.r, nof, measurement)
    /\ UNCHANGED <<entry, n, order_finder, max_attempts, attempt, x, c, y,
                   error, draws, calls, gate, table>>

\* quantum_order_finder, lines 47-57: the precondition, then one sample of the
\* order-finding circuit (any integer the exponent register can hold) and its
\* decoding by process_measurement
QuantumOrder ==
    /\ pc = "quantum_order_finder"
    /\ IF invalid_argument(x, n)
       THEN /\ pc' = "raised" /\ error' = "ValueError"
            /\ UNCHANGED <<measurement, r, result, nof>>
       ELSE \E m \in 0..(Pow2(exponent_num_bits(n)) - 1) :
            /\ error' = error
            /\ Return(process_measurement(m, x, n), nof, m)
    /\ UNCHANGED <<entry, n, order_finder, max_attempts, attempt, x, c, y,
                   draws, calls, gate, table>>

\* an order finder called directly
InitOrderFinder(finder) ==
    /\ entry = finder
    /\ pc = entry
    /\ n \in 0..MaxOrderN
    /\ x \in 0..MaxOrderN
    /\ NoFindFactor /\ NoOrder /\ NoOutcome /\ NoGate

(* ----------------------- find_factor_of_prime_power -------------------- *)

InitPrimePower ==
    /\ entry = "find_factor_of_prime_power"
    /\ pc = entry
    /\ n \in 1..MaxPowerN
    /\ x = None
    /\ NoFindFactor /\ NoOrder /\ NoOutcome /\ NoGate

\* find_factor_of_prime_power called on its own, lines 136-144
PrimePower ==
    /\ pc = "find_factor_of_prime_power"
    /\ \E rnd \in Roundings(n) : result' = find_factor_of_prime_power(n, rnd)
    /\ pc' = "done"
    /\ UNCHANGED <<entry, n, order_finder, max_attempts, attempt, x, c, r, y, nof,
                   measurement, error, draws, calls, gate, table>>

(* ------------------------------ ModularExp ----------------------------- *)

InitModularExp ==
    /\ entry = "ModularExp"
    /\ pc = "__init__"
    /\ \E target \in 1..MaxTargetLen, exponent \in 1..MaxExponentLen,
          modulus \in 2..MaxModulus :
         \E base \in 1..(modulus - 1) :
            gate = [target |-> target, exponent |-> exponent,
                    base |-> base, modulus |-> modulus]
    /\ table = NoTable
    /\ n = None /\ x = None
    /\ NoFindFactor /\ NoOrder /\ NoOutcome

\* ModularExp.__init__, lines 32-39: target and exponent are register widths
ModularExpInit ==
    /\ pc = "__init__"
    /\ IF gate.target < BitLength(gate.modulus)
       THEN /\ pc' = "raised" /\ error' = "ValueError"
       ELSE /\ pc' = "ModularExp" /\ error' = error
    /\ UNCHANGED <<entry, n, order_finder, max_attempts, attempt, x, c, r, y, nof,
                   measurement, result, draws, calls, gate, table>>

\* the gate acts on the target register for one exponent value e: apply is
\* evaluated for every value t the target register can hold
ModularExpApply ==
    /\ pc = "ModularExp"
    /\ \E e \in 0..(Pow2(gate.exponent) - 1) :
         table' = [exponent |-> e,
                   out |-> [t \in 0..(Pow2(gate.target) - 1) |->
                              apply(t, e, gate.base, gate.modulus)]]
    /\ UNCHANGED <<entry, pc, n, order_finder, max_attempts, attempt, x, c, r, y,
                   nof, measurement, result, error, draws, calls, gate>>

(* ---------------------------- specifications --------------------------- *)

Next ==
    \/ Shortcuts
    \/ Draw
    \/ Exhausted
    \/ AfterOrder
    \/ NaiveEnter
    \/ NaiveStep
    \/ NaiveReturn
    \/ QuantumOrder

\* find_factor(n, order_finder, max_attempts)
Spec == InitFindFactor /\ [][Next]_vars
FairSpec == Spec /\ WF_vars(Next)

NextNaiveOrderFinder == NaiveEnter \/ NaiveStep \/ NaiveReturn

\* naive_order_finder(x, n) called directly
SpecNaiveOrderFinder ==
    InitOrderFinder("naive_order_finder") /\ [][NextNaiveOrderFinder]_vars
FairSpecNaiveOrderFinder ==
    SpecNaiveOrderFinder /\ WF_vars(NextNaiveOrderFinder)

\* quantum_order_finder(x, n) called directly
SpecQuantumOrderFinder ==
    InitOrderFinder("quantum_order_finder") /\ [][QuantumOrder]_vars

\* find_factor_of_prime_power(n) called directly
SpecPrimePower == InitPrimePower /\ [][PrimePower]_vars

NextModularExp == ModularExpInit \/ ModularExpApply

\* a ModularExp gate constructed and applied
SpecModularExp == InitModularExp /\ [][NextModularExp]_vars

(* ------------------- number theory the claims speak of ----------------- *)

Divides(d, a) == d # 0 /\ a % d = 0

Prime(a) == a > 1 /\ \A d \in 1..a : Divides(d, a) => d \in {1, a}

Coprime(a, b) == \A d \in 2..a : ~(Divides(d, a) /\ Divides(d, b))

\* x is an element of the multiplicative group modulo n
ValidBase(xx, nn) == 2 <= xx /\ xx < nn /\ Coprime(xx, nn)

\* t * x^e mod n by e successive multiplications
RECURSIVE TimesPower(_, _, _, _)
TimesPower(t, e, xx, nn) ==
    IF e = 0 THEN t % nn ELSE (TimesPower(t, e - 1, xx, nn) * xx) % nn

\* rr is the multiplicative order of x modulo n
IsOrder(rr, xx, nn) ==
    /\ rr >= 1
    /\ TimesPower(1, rr, xx, nn) = 1
    /\ \A j \in 1..(rr - 1) : TimesPower(1, j, xx, nn) # 1

PrimeDivisors(a) == {q \in 2..a : Prime(q) /\ Divides(q, a)}

\* a = p^K for a prime p and K >= 2
IsPrimePower(a) == Cardinality(PrimeDivisors(a)) = 1 /\ ~Prime(a)

PrimeBase(a) == CHOOSE q \in PrimeDivisors(a) : TRUE

\* K with p^K = a
RECURSIVE ExponentOf(_, _)
ExponentOf(a, q) == IF a % q # 0 THEN 0 ELSE 1 + ExponentOf(a \div q, q)

\* the smallest divisor >= 2 of K >= 2
LeastDivisor(K) == CHOOSE k \in 2..K : Divides(k, K) /\ \A j \in 2..(k - 1) : ~Divides(j, K)

Terminated == pc \in {"done", "raised"}

(* -------------------------------- claims ------------------------------- *)

\* C1: every value find_factor returns that is not None divides n and lies
\* strictly between 1 and n, whichever of the three return paths produced it.
C1_ReturnedFactorIsNontrivial ==
    (entry = "find_factor" /\ pc = "done" /\ result # None)
        => (Divides(result, n) /\ 1 < result /\ result < n)

\* a factor returned from gcd(y - 1, n) after a quantum order finding
C1_Witness ==
    /\ pc = "done" /\ result # None /\ calls >= 1 /\ y # None /\ result = c
    /\ order_finder = "quantum_order_finder"

\* C2 (as stated): for n = p^K, p prime, K >= 2, find_factor_of_prime_power
\* returns exactly p.
C2_ReturnsPrimeBase ==
    (entry = "find_factor_of_prime_power" /\ pc = "done" /\ IsPrimePower(n))
        => result = PrimeBase(n)

\* C2 (amended): for n = p^K, p prime, K >= 2, find_factor_of_prime_power
\* returns p^(K / k) for the smallest divisor k >= 2 of K, whatever way the
\* floating-point roots are rounded: p itself exactly when K is prime.
C2_ReturnsRootOfLeastDegree ==
    (entry = "find_factor_of_prime_power" /\ pc = "done" /\ IsPrimePower(n))
        => LET p == PrimeBase(n)
               K == ExponentOf(n, p)
           IN  /\ result = Pow(p, K \div LeastDivisor(K))
               /\ (result = p) <=> Prime(K)

\* a prime power whose returned root is not the prime base (16, 64, 81)
C2_Witness ==
    /\ entry = "find_factor_of_prime_power" /\ pc = "done" /\ IsPrimePower(n)
    /\ result # None /\ result # PrimeBase(n)

\* C3: for prime n find_factor returns None and for even n > 2 it returns 2,
\* and in both cases no base is ever drawn and no order finder ever invoked.
C3_ShortcutsDecideFirst ==
    (entry = "find_factor" /\ (Prime(n) \/ n % 2 = 0))
        => /\ draws = 0 /\ calls = 0 /\ x = None
           /\ pc \in {"find_factor", "done"} /\ error = NoError
           /\ pc = "done" => result = (IF Prime(n) THEN None ELSE 2)

\* an even n > 2 answered with 2 although attempts were allowed
C3_Witness ==
    /\ pc = "done" /\ n % 2 = 0 /\ n > 2 /\ result = 2 /\ max_attempts > 0
    /\ order_finder = "quantum_order_finder"

C4_Safety ==
    entry = "naive_order_finder"
        => /\ pc = "done" => (ValidBase(x, n) /\ IsOrder(result, x, n))
           /\ pc = "raised" => (~ValidBase(x, n) /\ error = "ValueError"
                                /\ nof = NoFrame)
           /\ ~ValidBase(x, n) => pc \in {"naive_order_finder", "raised"}

\* C4: for valid (x, n) naive_order_finder terminates and returns the
\* multiplicative order of x modulo n; for x < 2, n <= x or gcd(x, n) > 1 it
\* raises ValueError without entering its loop.
C4_NaiveOrderFinder ==
    /\ []C4_Safety
    /\ (entry = "naive_order_finder") => <>Terminated

\* an order above 2 returned after several iterations
C4_Witness ==
    /\ entry = "naive_order_finder" /\ pc = "done" /\ result > 2 /\ nof.r = result

\* C5: for valid (x, n) and any measured integer, quantum_order_finder /
\* process_measurement returns None or the order of x modulo n, never a proper
\* multiple of it, and None whenever the approximation has numerator 0.
C5_DecodesOrderOrNone ==
    (entry = "quantum_order_finder" /\ pc = "done")
        => /\ result = None \/ IsOrder(result, x, n)
           /\ limit_denominator(from_float(measurement, exponent_num_bits(n)), n)[1] = 0
                 => result = None

C6_EvenOrderAttempt ==
    /\ entry = "find_factor" /\ pc = "order_found" /\ n = 33
    /\ order_finder = "naive_order_finder" /\ r % 2 = 0

\* C6 (as stated): for n = 33 with naive_order_finder, an attempt whose base
\* has even order returns 3 or 11.
C6_EvenOrderReturnsFactor ==
    [][C6_EvenOrderAttempt => (pc' = "done" /\ result' \in {3, 11})]_vars

\* C6 (amended): for n = 33 with naive_order_finder, an attempt whose base x
\* has even order r returns 3 or 11 unless x^(r/2) mod 33 = 32 (-1 modulo 33);
\* in that case gcd(y - 1, 33) = 1 and the attempt falls through to the next.
C6_EvenOrderReturnsFactorUnlessMinusOne ==
    [][C6_EvenOrderAttempt =>
          IF TimesPower(1, r \div 2, x, 33) # 32
          THEN pc' = "done" /\ result' \in {3, 11}
          ELSE pc' = "for" /\ attempt' = attempt + 1 /\ result' = None]_vars

\* 3 or 11 returned from the gcd of an even-order attempt
C6_Witness ==
    /\ n = 33 /\ order_finder = "naive_order_finder" /\ pc = "done"
    /\ calls >= 1 /\ r # None /\ r % 2 = 0 /\ result \in {3, 11} /\ result = c
    /\ y # None

C7_Bounded ==
    entry = "find_factor"
        => /\ draws <= max_attempts /\ calls <= max_attempts /\ calls <= draws
           /\ (pc = "done" /\ result = None /\ ~Prime(n)) => draws = max_attempts

\* the order finder returned None or an odd order, or gcd(y - 1, n) is trivial
C7_SoftFailure ==
    /\ pc = "order_found"
    /\ \/ r = None
       \/ r % 2 # 0
       \/ LET yy == TimesPower(1, r \div 2, x, n) IN
          1 < yy /\ yy < n /\ Gcd(yy - 1, n) \in {1, n}

C8_ApplyIsReversible ==
    (entry = "ModularExp" /\ pc = "ModularExp")
        => /\ BitLength(gate.modulus) <= gate.target
           /\ (table.exponent # None /\ Coprime(gate.base, gate.modulus))
                 => LET W == 0..(Pow2(gate.target) - 1) IN
                    /\ \A t \in W : table.out[t] \in W
                    /\ \A s, t \in W : table.out[s] = table.out[t] => s = t
                    /\ \A t \in W : t >= gate.modulus => table.out[t] = t
                    /\ \A t \in W : t < gate.modulus =>
                          /\ table.out[t] < gate.modulus
                          /\ table.out[t] = TimesPower(t, table.exponent,
                                                       gate.base, gate.modulus)

\* a gate with spare register values that moves some residue
C8_Witness ==
    /\ pc = "ModularExp" /\ table.exponent # None /\ table.exponent >= 2
    /\ Coprime(gate.base, gate.modulus)
    /\ gate.modulus < Pow2(gate.target) - 1
    /\ \E t \in 0..(gate.modulus - 1) : table.out[t] # t

\* C9: whenever find_factor computes y = x^(r/2) mod n, 1 < y < n holds, so
\* "assert 1 < y < n" never fails.
C9_AssertionHolds ==
    entry = "find_factor"
        => /\ y # None => (1 < y /\ y < n)
           /\ error # "AssertionError"

\* C10: find_factor invokes the order finder only with 2 <= x < n and
\* gcd(x, n) = 1 (a draw sharing a factor with n returns that factor at once),
\* so the order finders' ValueError is unreachable from find_factor.
C10_OrderFinderPrecondition ==
    entry = "find_factor"
        => /\ error # "ValueError"
           /\ pc \in OrderFinders \cup {"while", "order_found"} => ValidBase(x, n)
           /\ (x # None /\ ~Coprime(x, n))
                 => (pc = "done" /\ result = c /\ Divides(result, x)
                     /\ Divides(result, n) /\ result > 1)

\* an order finder about to run on a base drawn by find_factor
C10_Witness ==
    /\ entry = "find_factor" /\ pc \in OrderFinders /\ calls >= 1 /\ x >= 2

====
